---- MODULE Spec2Model ----
(***************************************************************************)
(* Technical-indicator and signal-scoring engine of the trading analyzer   *)
(* (src/src/utils/technicalAnalysis.ts, class TechnicalAnalyzer).          *)
(*                                                                         *)
(* Number representation.  The code computes on IEEE doubles; the model    *)
(* computes on integers in fixed point:                                   *)
(*   - prices, moving averages, MACD values, true ranges : units of 1e-7   *)
(*     (1.09000 is 10900000; one exchange tick 0.0001 is 1000)             *)
(*   - RSI                                              : units of 0.01    *)
(*   - log returns                                      : units of 1e-7    *)
(*   - volatility (a percentage)                        : units of 1e-5 %  *)
(*   - historical accuracy                              : units of 0.01    *)
(* Every division of the code is a Quot, which rounds to the nearest unit  *)
(* symmetrically, as the double division does at its own resolution.       *)
(***************************************************************************)
EXTENDS Integers, Sequences, FiniteSets, TLC

VARIABLES
    candles,     \* the candle history handed to the analyzer (most recent last)
    appended,    \* how many candles the feed has added to the initial history
    analysis,    \* value returned by analyzeMarket(candles), or NotCalled
    indicators,  \* value returned by getTechnicalIndicators(candles), or NotCalled
    tickIn,      \* arguments of a direct call of calculateCurrentTickSignal
    tickOut,     \* the TradingSignal it returned, or NotCalled
    libIn,       \* arguments of a direct call of an indicator-library function
    libOut       \* [fn, value] of the call made, or NotCalled

\* The App component (src/src/App.tsx), its advisory and alert services
VARIABLES
    now,               \* Date.now()
    enhancedAnalysis,  \* App state enhancedAnalysis: Null or a MarketAnalysis
    enhancedOf,        \* which object enhancedAnalysis is: the analysis memoised
                       \* after that many refreshes, or a Fresh object built from it
    lastAiCall,        \* App state lastAiCall
    lastSignalSent,    \* App state lastSignalSent
    telegramConfig,    \* App state telegramConfig, mirrored in telegramService.config
    changed,           \* effect dependencies that changed since the effects last ran
    aiInFlight,        \* enhanceWithAI calls awaiting generateEnhancedTradingSignals
    sendInFlight,      \* how many sendTradingAlert calls await their fetch
    aiCalls,           \* times of the latest two calls of geminiService.enhanceAnalysis
    alerts,            \* the latest two sendMessage requests issued: [signal, at]
    lastAi             \* the last step of the AI-enhancement effect or of its call

\* The polling hook (src/src/hooks/useBinanceData.ts); its candles state is
\* the variable candles
VARIABLES
    loading,           \* hook state loading
    error,             \* hook state error: Null or a message
    isConnected,       \* hook state isConnected
    fetchIssued,       \* how many times fetchData has been called
    fetchInFlight,     \* the calls of fetchData awaiting their response, by number
    fetchSucceeded,    \* the calls whose response arrived and was accepted
    candlesFrom        \* the call whose response candles holds, 0 for none

pollVars ==
    <<loading, error, isConnected, fetchIssued, fetchInFlight, fetchSucceeded,
      candlesFrom>>

appVars ==
    <<now, enhancedAnalysis, enhancedOf, lastAiCall, lastSignalSent, telegramConfig,
      changed, aiInFlight, sendInFlight, aiCalls, alerts, lastAi>>

vars ==
    <<candles, appended, analysis, indicators, tickIn, tickOut, libIn, libOut,
      now, enhancedAnalysis, enhancedOf, lastAiCall, lastSignalSent, telegramConfig,
      changed, aiInFlight, sendInFlight, aiCalls, alerts, lastAi,
      loading, error, isConnected, fetchIssued, fetchInFlight, fetchSucceeded,
      candlesFrom>>

\* JS null
Null == [null |-> TRUE]

\* No call has been made yet on the current arguments.
NotCalled == [fn |-> "none"]

\* What a JS function that dies with "TypeError: Cannot read properties of
\* undefined" yields to its caller.
TypeError == [exception |-> "TypeError"]

Threw(r) == "exception" \in DOMAIN r

(***************************************************************************)
(* Arithmetic helpers                                                      *)
(***************************************************************************)

Abs(x) == IF x < 0 THEN -x ELSE x

Max(a, b) == IF a >= b THEN a ELSE b

Min(a, b) == IF a <= b THEN a ELSE b

\* Math.sign
Sign(x) == IF x > 0 THEN 1 ELSE IF x < 0 THEN -1 ELSE 0

\* a / b of the code on fixed-point numbers: the nearest unit, b > 0.
Quot(a, b) == IF a >= 0 THEN (2 * a + b) \div (2 * b)
              ELSE -((2 * (-a) + b) \div (2 * b))

\* Array.prototype.reduce((a, b) => a + b, 0)
RECURSIVE SumRange(_, _, _)
SumRange(s, lo, hi) ==
    IF lo > hi THEN 0
    ELSE IF lo = hi THEN s[lo]
    ELSE LET mid == (lo + hi) \div 2
         IN SumRange(s, lo, mid) + SumRange(s, mid + 1, hi)

SumTo(s, n) == SumRange(s, 1, n)

SumSeq(s) == SumTo(s, Len(s))

\* data.slice(-n) : the last n elements (the whole array when it is shorter)
LastN(s, n) == IF n >= Len(s) THEN s ELSE SubSeq(s, Len(s) - n + 1, Len(s))

\* data.slice(0, n)
FirstN(s, n) == SubSeq(s, 1, Min(n, Len(s)))

\* r * r <= x, without forming a square that exceeds 32 bits
SquareAtMost(r, x) == r = 0 \/ r <= x \div r

\* the largest digit d in 0..35 with (base + d * step)^2 <= x
SqrtDigit(x, base, step) ==
    CHOOSE d \in 0..35 :
        /\ SquareAtMost(base + d * step, x)
        /\ d = 35 \/ ~SquareAtMost(base + (d + 1) * step, x)

\* Math.sqrt at the resolution of one unit: the largest r with r * r <= x,
\* found digit by digit in base 36 (x < 2^31, so r < 36^3)
Sqrt(x) ==
    LET a == SqrtDigit(x, 0, 1296)
        b == SqrtDigit(x, a * 1296, 36)
        c == SqrtDigit(x, a * 1296 + b * 36, 1)
    IN a * 1296 + b * 36 + c

(***************************************************************************)
(* Indicator library                                                       *)
(***************************************************************************)

\* calculateSMA without its length guard.
calculateSMANoGuard(data, period) == Quot(SumSeq(LastN(data, period)), period)

calculateSMA(data, period) ==
    IF Len(data) < period THEN 0
    ELSE Quot(SumSeq(LastN(data, period)), period)

\* the double NaN, as far as isNaN and the comparisons the code applies to a
\* possibly-NaN value (x > 0, truthiness) can tell
NaN == -2000000000

isNaN(x) == x = NaN

\* the loop of calculateEMA from the (1-based) index i on:
\* ema = data[i] * multiplier + ema * (1 - multiplier), multiplier = 2 / (period + 1);
\* a NaN average stays NaN whatever follows
RECURSIVE EMALoop(_, _, _, _)
EMALoop(data, period, i, ema) ==
    IF i > Len(data) THEN ema
    ELSE LET next == Quot(2 * data[i] + (period - 1) * ema, period + 1)
         IN IF next = NaN THEN NaN ELSE EMALoop(data, period, i + 1, next)

\* calculateEMA with the loop started one index early, on the last value of
\* the seed window
calculateEMALoopFromSeedEnd(data, period) ==
    IF Len(data) < period THEN 0
    ELSE LET seed == calculateSMA(FirstN(data, period), period)
         IN IF seed = 0 THEN 0
            ELSE EMALoop(data, period, period, seed)

calculateEMA(data, period) ==
    IF Len(data) < period THEN 0
    ELSE LET seed == calculateSMA(FirstN(data, period), period)
         IN IF seed = 0 THEN 0
            ELSE EMALoop(data, period, period + 1, seed)

\* closes[i] - closes[i - 1] for the last `period` indices i >= 1 of closes
RsiChanges(closes, period) ==
    LET n  == Len(closes)
        lo == Max(n - period + 1, 2)       \* 1-based; "if (i < 1) continue"
    IN [k \in 1..Max(n - lo + 1, 0) |-> closes[lo + k - 1] - closes[lo + k - 2]]

\* the length guard of calculateRSI, off by one
RsiTooShortOffByOne(closes, period) == Len(closes) < period

RsiTooShort(closes, period) == Len(closes) < period + 1

\* RSI in units of 0.01.  avgGain and avgLoss are kept as the exact fractions
\* G / period and L / period, so rs = G / L and
\* 100 - 100 / (1 + rs) = 100 - 100 * L / (L + G).
calculateRSI(closes, period) ==
    IF RsiTooShort(closes, period) THEN 5000
    ELSE LET ch     == RsiChanges(closes, period)
             gains  == [k \in DOMAIN ch |-> IF ch[k] > 0 THEN ch[k] ELSE 0]
             losses == [k \in DOMAIN ch |-> IF ch[k] > 0 THEN 0 ELSE Abs(ch[k])]
             G      == SumTo(gains, Len(ch))
             L      == SumTo(losses, Len(ch))
         IN IF Len(ch) = 0 THEN 5000
            ELSE IF L = 0 THEN 10000
            ELSE IF G = 0 THEN 0
            ELSE 10000 - Quot(10000 * L, L + G)

\* the MACD line: ema12 - ema26 of closes.slice(0, k) for k = from .. closes.length,
\* keeping only the points where both EMAs are non-zero
MacdLine(closes, from) ==
    LET points == [k \in 1..Max(Len(closes) - from + 1, 0) |->
                      LET slice == FirstN(closes, from + k - 1)
                      IN [ema12_i |-> calculateEMA(slice, 12),
                          ema26_i |-> calculateEMA(slice, 26)]]
        valid(p) == p.ema12_i # 0 /\ p.ema26_i # 0
        kept == SelectSeq(points, valid)
    IN [k \in 1..Len(kept) |-> kept[k].ema12_i - kept[k].ema26_i]

calculateMACD(closes) ==
    IF Len(closes) < 26 THEN [macd |-> 0, signal |-> 0, histogram |-> 0]
    ELSE LET ema12 == calculateEMA(closes, 12)
             ema26 == calculateEMA(closes, 26)
         IN IF ema12 = 0 \/ ema26 = 0
            THEN [macd |-> 0, signal |-> 0, histogram |-> 0]
            ELSE LET macd     == ema12 - ema26
                     macdLine == MacdLine(closes, 26)
                     signal   == IF Len(macdLine) >= 9
                                 THEN calculateEMA(macdLine, 9) ELSE macd
                 IN [macd |-> macd, signal |-> signal, histogram |-> macd - signal]

\* true range of candle i (1-based, i >= 2)
TrueRange(cs, i) ==
    Max(cs[i].high - cs[i].low,
        Max(Abs(cs[i].high - cs[i - 1].close), Abs(cs[i].low - cs[i - 1].close)))

calculateATR(cs, period) ==
    IF Len(cs) < period THEN 0
    ELSE LET trueRanges == [k \in 1..(Len(cs) - 1) |-> TrueRange(cs, k + 1)]
         IN IF Len(cs) - 1 = 0 THEN 0
            ELSE calculateEMA(trueRanges, period)

(***************************************************************************)
(* Candle access                                                           *)
(***************************************************************************)

\* the value of an out-of-range array read
Undefined == [undefined |-> TRUE]

\* arr[i] of JavaScript (i is 0-based)
At(arr, i) == IF i >= 0 /\ i < Len(arr) THEN arr[i + 1] ELSE Undefined

\* candles[candles.length] : the index one past the end
LastCandleOffByOne(cs) == At(cs, Len(cs))

\* candles[candles.length - 1]
LastCandle(cs) == At(cs, Len(cs) - 1)

\* candles[candles.length - 2]
PrevCandle(cs) == At(cs, Len(cs) - 2)


\* (a - b) / b in units of 1e-7, for prices a, b > 0 on the 1e-5 grid.  It is
\* also Math.log(a / b) to first order; the second-order term is below one
\* unit for moves of a few ticks.
RelChange(a, b) == Quot((a - b) * 100000, b \div 100)

(***************************************************************************)
(* Indicator snapshot builder                                              *)
(***************************************************************************)

macdHistThresholdStrong == 500     \* 0.00005

macdHistThresholdWeak == 100       \* 0.00001 (line 161; no statement reads it)

\* the trend rule without the validity test of line 145
ClassifyTrendUnguarded(ema12, ema26, sma20, sma50, currentPrice) ==
    IF ema12 > ema26 /\ currentPrice > sma20 /\ currentPrice > sma50
    THEN "BULLISH"
    ELSE IF ema12 < ema26 /\ currentPrice < sma20 /\ currentPrice < sma50
    THEN "BEARISH"
    ELSE "SIDEWAYS"

\* lines 144-153: trend from the moving averages
ClassifyTrend(ema12, ema26, sma20, sma50, currentPrice) ==
    IF ~isNaN(ema12) /\ ~isNaN(ema26) /\ ~isNaN(sma20) /\ sma50 # 0
    THEN IF ema12 > ema26 /\ currentPrice > sma20 /\ currentPrice > sma50
         THEN "BULLISH"
         ELSE IF ema12 < ema26 /\ currentPrice < sma20 /\ currentPrice < sma50
         THEN "BEARISH"
         ELSE "SIDEWAYS"
    ELSE "UNDEFINED"

\* lines 156-171: momentum from the MACD histogram and the last price change
ClassifyMomentum(histogram, priceChange) ==
    IF histogram > macdHistThresholdStrong /\ priceChange > 0 THEN "STRONG_UP"
    ELSE IF histogram > 0 THEN "UP"
    ELSE IF histogram < -macdHistThresholdStrong /\ priceChange < 0 THEN "STRONG_DOWN"
    ELSE IF histogram < 0 THEN "DOWN"
    ELSE "NEUTRAL"

NeutralIndicators ==
    [sma20 |-> 0, sma50 |-> 0, ema12 |-> 0, ema26 |-> 0, rsi |-> 5000,
     macd |-> 0, macdSignal |-> 0, macdHistogram |-> 0, atr |-> 0,
     volume |-> 0, avgVolume |-> 0, trend |-> "UNDEFINED", momentum |-> "NEUTRAL"]

getTechnicalIndicators(cs) ==
    IF Len(cs) = 0 THEN NeutralIndicators
    ELSE IF LastCandle(cs) = Undefined THEN TypeError   \* .close of undefined
    ELSE
    LET currentPrice == LastCandle(cs).close
        closes   == [k \in 1..Len(cs) |-> cs[k].close]
        volumes  == [k \in 1..Len(cs) |-> cs[k].volume]
        sma20    == calculateSMA(closes, 20)
        sma50    == calculateSMA(closes, 50)
        ema12    == calculateEMA(closes, 12)
        ema26    == calculateEMA(closes, 26)
        rsi      == calculateRSI(closes, 14)
        macdData == calculateMACD(closes)
        atr      == calculateATR(cs, 14)
        currentVolume == volumes[Len(volumes)]
        avgVolume == IF Len(volumes) >= 20
                     THEN Quot(SumSeq(LastN(volumes, 20)), 20) ELSE 0
        \* ((currentPrice - prev?.close) / prev?.close) * 100 || 0
        priceChange == IF PrevCandle(cs) = Undefined THEN 0
                       ELSE RelChange(currentPrice, PrevCandle(cs).close)
    IN [sma20 |-> sma20, sma50 |-> sma50, ema12 |-> ema12, ema26 |-> ema26,
        rsi |-> rsi, macd |-> macdData.macd, macdSignal |-> macdData.signal,
        macdHistogram |-> macdData.histogram, atr |-> atr,
        volume |-> currentVolume, avgVolume |-> avgVolume,
        trend |-> ClassifyTrend(ema12, ema26, sma20, sma50, currentPrice),
        momentum |-> ClassifyMomentum(macdData.histogram, priceChange)]

(***************************************************************************)
(* Signal scorer                                                           *)
(***************************************************************************)

macdThreshold == 100               \* 0.00001

fallbackAtr == 500                 \* 0.00005

\* lines 328-343: the two RSI if / else-if statements
RsiRule(rsi) ==
    LET low  == IF rsi < 3500 THEN [score |-> 3, reasons |-> <<"RSI oversold (strong buy signal)">>]
                ELSE IF rsi < 4500 THEN [score |-> 1, reasons |-> <<"RSI approaching oversold">>]
                ELSE [score |-> 0, reasons |-> <<>>]
        high == IF rsi > 6500 THEN [score |-> -3, reasons |-> <<"RSI overbought (strong sell signal)">>]
                ELSE IF rsi > 5500 THEN [score |-> -1, reasons |-> <<"RSI approaching overbought">>]
                ELSE [score |-> 0, reasons |-> <<>>]
    IN [score |-> low.score + high.score, reasons |-> low.reasons \o high.reasons]

\* lines 345-362: the two MACD if / else-if statements
MacdRule(ind) ==
    LET up   == IF ind.macdHistogram > macdThreshold /\ ind.macd > ind.macdSignal
                THEN [score |-> 2, reasons |-> <<"MACD bullish crossover">>]
                ELSE IF ind.macdHistogram > 0
                THEN [score |-> 1, reasons |-> <<"MACD histogram positive">>]
                ELSE [score |-> 0, reasons |-> <<>>]
        down == IF ind.macdHistogram < -macdThreshold /\ ind.macd < ind.macdSignal
                THEN [score |-> -2, reasons |-> <<"MACD bearish crossover">>]
                ELSE IF ind.macdHistogram < 0
                THEN [score |-> -1, reasons |-> <<"MACD histogram negative">>]
                ELSE [score |-> 0, reasons |-> <<>>]
    IN [score |-> up.score + down.score, reasons |-> up.reasons \o down.reasons]

\* lines 364-379: price against SMA20, EMA12 against EMA26
MovingAverageRule(ind, currentPrice) ==
    LET p == IF currentPrice > ind.sma20
             THEN [score |-> 2, reasons |-> <<"Price above SMA20 (bullish)">>]
             ELSE [score |-> -2, reasons |-> <<"Price below SMA20 (bearish)">>]
        e == IF ind.ema12 > ind.ema26
             THEN [score |-> 2, reasons |-> <<"EMA bullish cross">>]
             ELSE [score |-> -2, reasons |-> <<"EMA bearish cross">>]
    IN [score |-> p.score + e.score, reasons |-> p.reasons \o e.reasons]

\* the trend rule with the two contributions swapped
TrendRuleSwapped(trend) ==
    IF trend = "BULLISH" THEN [score |-> -2, reasons |-> <<"Bullish trend">>]
    ELSE IF trend = "BEARISH" THEN [score |-> 2, reasons |-> <<"Bearish trend">>]
    ELSE [score |-> 0, reasons |-> <<>>]

\* lines 381-388
TrendRule(trend) ==
    IF trend = "BULLISH" THEN [score |-> 2, reasons |-> <<"Bullish trend">>]
    ELSE IF trend = "BEARISH" THEN [score |-> -2, reasons |-> <<"Bearish trend">>]
    ELSE [score |-> 0, reasons |-> <<>>]

\* the volume rule adding +1 on a spike whatever the sign of the running score
VolumeRuleAlwaysUp(cs, ind, score) ==
    LET currentVolume == LastCandle(cs).volume
        avgVolume == IF ind.avgVolume > 0 THEN ind.avgVolume
                     ELSE IF Len(cs) >= 20
                          THEN Quot(SumSeq([k \in 1..20 |-> LastN(cs, 20)[k].volume]), 20)
                          ELSE 1
    IN IF currentVolume > avgVolume * 2
       THEN [score |-> 1, reasons |-> <<"High volume confirmation">>]
       ELSE [score |-> 0, reasons |-> <<>>]

\* lines 390-399: a volume spike amplifies the running score by its own sign
VolumeRule(cs, ind, score) ==
    LET currentVolume == LastCandle(cs).volume
        avgVolume == IF ind.avgVolume > 0 THEN ind.avgVolume
                     ELSE IF Len(cs) >= 20
                          THEN Quot(SumSeq([k \in 1..20 |-> LastN(cs, 20)[k].volume]), 20)
                          ELSE 1
    IN IF currentVolume > avgVolume * 2
       THEN [score |-> Sign(score), reasons |-> <<"High volume confirmation">>]
       ELSE [score |-> 0, reasons |-> <<>>]

\* lines 325-399: the running score and the reasons after all the rules
ScoreRules(cs, ind, currentPrice, trend) ==
    LET r == RsiRule(ind.rsi)
        m == MacdRule(ind)
        a == MovingAverageRule(ind, currentPrice)
        t == TrendRule(trend)
        s == r.score + m.score + a.score + t.score
        v == VolumeRule(cs, ind, s)
    IN [score |-> s + v.score,
        reasons |-> r.reasons \o m.reasons \o a.reasons \o t.reasons \o v.reasons]

\* the decision with a confidence assigned on the BUY and SELL branches too
DecisionConfident(score) ==
    IF score >= 5
    THEN [action |-> "BUY", confidence |-> 50,
          strength |-> IF score >= 12 THEN "VERY_STRONG"
                       ELSE IF score >= 8 THEN "STRONG" ELSE "MODERATE",
          probability |-> IF score >= 12 THEN 90 ELSE IF score >= 8 THEN 80 ELSE 65,
          reasons |-> <<>>]
    ELSE IF score <= -4
    THEN [action |-> "SELL", confidence |-> 50,
          strength |-> IF score <= -10 THEN "VERY_STRONG"
                       ELSE IF score <= -7 THEN "STRONG" ELSE "MODERATE",
          probability |-> IF score <= -10 THEN 90 ELSE IF score <= -7 THEN 80 ELSE 65,
          reasons |-> <<>>]
    ELSE [action |-> "HOLD", confidence |-> 25, strength |-> "WEAK", probability |-> 50,
          reasons |-> <<"Market is consolidating or lacking clear direction.">>]

\* lines 405-440: action, confidence, base probability and strength of a score
Decision(score) ==
    IF score >= 5
    THEN [action |-> "BUY", confidence |-> 0,
          strength |-> IF score >= 12 THEN "VERY_STRONG"
                       ELSE IF score >= 8 THEN "STRONG" ELSE "MODERATE",
          probability |-> IF score >= 12 THEN 90 ELSE IF score >= 8 THEN 80 ELSE 65,
          reasons |-> <<>>]
    ELSE IF score <= -4
    THEN [action |-> "SELL", confidence |-> 0,
          strength |-> IF score <= -10 THEN "VERY_STRONG"
                       ELSE IF score <= -7 THEN "STRONG" ELSE "MODERATE",
          probability |-> IF score <= -10 THEN 90 ELSE IF score <= -7 THEN 80 ELSE 65,
          reasons |-> <<>>]
    ELSE [action |-> "HOLD", confidence |-> 25, strength |-> "WEAK", probability |-> 50,
          reasons |-> <<"Market is consolidating or lacking clear direction.">>]

\* historical accuracy always at its cap of 0.95
calculateHistoricalAccuracyAtCap(cs, ind) == 95

\* historical accuracy with the MACD bonus doubled to 0.10
calculateHistoricalAccuracyMacdTen(cs, ind) ==
    LET a0 == 75
        a1 == IF ind.rsi > 7000 \/ ind.rsi < 3000 THEN a0 + 10 ELSE a0
        a2 == IF Abs(ind.macdHistogram) > 1000 THEN a1 + 10 ELSE a1
    IN Min(a2, 95)

\* historical accuracy in units of 0.01
calculateHistoricalAccuracy(cs, ind) ==
    LET a0 == 75
        a1 == IF ind.rsi > 7000 \/ ind.rsi < 3000 THEN a0 + 10 ELSE a0
        a2 == IF Abs(ind.macdHistogram) > 1000 THEN a1 + 5 ELSE a1
    IN Min(a2, 95)

\* parseFloat((num / den).toFixed(5)) for a price of num / den units
Round5(num, den) == Quot(num, 100 * den) * 100

\* line 448: the ATR the stop distances are computed from
EffectiveAtr(atr) == IF atr # 0 /\ ~isNaN(atr) /\ atr > 0 THEN atr ELSE fallbackAtr

calculateCurrentTickSignal(cs, ind, currentPrice, trend, momentum) ==
    IF LastCandle(cs) = Undefined THEN TypeError        \* .volume of undefined
    ELSE
    LET sc  == ScoreRules(cs, ind, currentPrice, trend)
        d   == Decision(sc.score)
        historicalAccuracy == calculateHistoricalAccuracy(cs, ind)
        probability == Quot(d.probability * historicalAccuracy, 100)    \* Math.round
        atr == EffectiveAtr(ind.atr)
        \* atrMultiplier = 1.5, riskRewardRatio = 1.5: in quarters of a unit,
        \* atr * 1.5 is 6 * atr and atr * 1.5 * 1.5 is 9 * atr
        stop4 == IF d.action = "BUY" THEN 4 * currentPrice - 6 * atr
                 ELSE IF d.action = "SELL" THEN 4 * currentPrice + 6 * atr
                 ELSE 4 * currentPrice
        take4 == IF d.action = "BUY" THEN 4 * currentPrice + 9 * atr
                 ELSE IF d.action = "SELL" THEN 4 * currentPrice - 9 * atr
                 ELSE 4 * currentPrice
    IN [action      |-> d.action,
        confidence  |-> d.confidence,
        reason      |-> sc.reasons \o d.reasons,
        probability |-> probability,
        strength    |-> d.strength,
        entry_price |-> Round5(currentPrice, 1),
        stop_loss   |-> Round5(stop4, 4),
        take_profit |-> Round5(take4, 4)]

\* [signal]; an exception of calculateCurrentTickSignal travels as the element
generateTradingSignals(cs, ind, currentPrice, trend, momentum) ==
    <<calculateCurrentTickSignal(cs, ind, currentPrice, trend, momentum)>>

(***************************************************************************)
(* Market analyzer                                                         *)
(***************************************************************************)

\* Math.log(candles[i].close / candles[i - 1].close) for i = 1 .. length - 1
LogReturns(cs) ==
    [k \in 1..(Len(cs) - 1) |-> RelChange(cs[k + 1].close, cs[k].close)]

\* the length guard of calculateVolatility, off by one
VolatilityTooShortOffByOne(cs) == Len(cs) < 1

\* line 264: candles.length < 2
VolatilityTooShort(cs) == Len(cs) < 2

\* volatility in units of 1e-5 percent: Math.sqrt(variance) * 100
calculateVolatility(cs) ==
    IF VolatilityTooShort(cs) THEN 0
    ELSE IF Len(cs) - 1 <= 0 THEN NaN          \* 0 / 0 over an empty returns array
    ELSE LET returns  == LogReturns(cs)
             n        == Len(cs) - 1
             mean     == Quot(SumTo(returns, n), n)
             squares  == [k \in 1..n |-> (returns[k] - mean) * (returns[k] - mean)]
             variance == Quot(SumTo(squares, n), n)
         IN Sqrt(variance)

\* the history guard of analyzeMarket, lowered to the 26 closes MACD needs
TooFewCandlesLowered(cs) == Len(cs) < 26

\* line 194: candles.length < 50
TooFewCandles(cs) == Len(cs) < 50

\* a HOLD signal pinned to one price (lines 199-209 and 220-230)
HoldSignal(reason, price) ==
    [action |-> "HOLD", confidence |-> 25, reason |-> <<reason>>, probability |-> 50,
     strength |-> "WEAK", entry_price |-> price, stop_loss |-> price, take_profit |-> price]

\* analyzeMarket from line 194 on, given the snapshot `ind` that line 213
\* computes (it is read only past the guard of line 194)
analyzeMarketWith(cs, ind) ==
    LET currentCandle == LastCandle(cs)
    IN IF TooFewCandles(cs) \/ currentCandle = Undefined
       THEN [trend |-> "SIDEWAYS", momentum |-> "NEUTRAL", volatility |-> "MEDIUM",
             signals |-> <<HoldSignal("Insufficient data for analysis",
                                      IF currentCandle # Undefined
                                      THEN currentCandle.close ELSE 0)>>]
       ELSE IF Threw(ind) THEN ind
       ELSE IF isNaN(ind.ema12) \/ isNaN(ind.ema26)
       THEN [trend |-> "UNDEFINED", momentum |-> "NEUTRAL", volatility |-> "MEDIUM",
             signals |-> <<HoldSignal("Failed to calculate indicators.",
                                      currentCandle.close)>>]
       ELSE LET currentPrice == currentCandle.close
                volatility   == calculateVolatility(cs)
                volatilityLevel == IF volatility > 500 THEN "HIGH"     \* 0.005
                                   ELSE IF volatility < 100 THEN "LOW" \* 0.001
                                   ELSE "MEDIUM"
                signals == generateTradingSignals(cs, ind, currentPrice,
                                                  ind.trend, ind.momentum)
            IN IF Threw(signals[1]) THEN signals[1]
               ELSE [trend |-> ind.trend, momentum |-> ind.momentum,
                     volatility |-> volatilityLevel, signals |-> signals]

\* analyzeMarket (lines 191-261)
analyzeMarket(cs) == analyzeMarketWith(cs, getTechnicalIndicators(cs))

(***************************************************************************)
(* The advisory service (src/src/services/geminiService.ts) and the        *)
(* enhanced signal generation of the analyzer                              *)
(***************************************************************************)

\* JSON values of the object parsed from the advisory text
Num(n) == [num |-> n]
Str(s) == [str |-> s]

\* JS truthiness of a JSON number or string
Truthy(v) == IF "num" \in DOMAIN v THEN v.num # 0 ELSE v.str # ""

\* the JS value of a JSON number or string
Raw(v) == IF "num" \in DOMAIN v THEN v.num ELSE v.str

\* ToNumber, as Math.max applies it: a string that is no numeral is NaN
ToNumber(v) ==
    IF "num" \in DOMAIN v THEN v.num ELSE IF v.str = "" THEN 0 ELSE NaN

\* aiAnalysis[f] || fallback
OrElse(aiAnalysis, f, fallback) ==
    IF f \in DOMAIN aiAnalysis /\ Truthy(aiAnalysis[f])
    THEN Raw(aiAnalysis[f]) ELSE fallback

\* Math.min(Math.max(aiAnalysis[f] || fallback, 0), 100)
Clamped(aiAnalysis, f, fallback) ==
    LET x == IF f \in DOMAIN aiAnalysis /\ Truthy(aiAnalysis[f])
             THEN ToNumber(aiAnalysis[f]) ELSE fallback
    IN IF isNaN(x) THEN NaN ELSE Min(Max(x, 0), 100)

\* What generateContent and response.text() yield:
\*   [kind |-> "error"]              the call rejects (network or model error)
\*   [kind |-> "garbage"]            text without a JSON object, or one that
\*                                   JSON.parse rejects
\*   [kind |-> "json", body |-> o]   text whose {...} part parses to o
parseAIResponse(aiResponse, fallbackSignal, currentPrice) ==
    IF aiResponse.kind # "json"
    THEN [fallbackSignal EXCEPT
            !.reason = <<"AI Analysis Error, using technical analysis">> \o @,
            !.confidence = Min(@ + 5, 95)]
    ELSE LET aiAnalysis == aiResponse.body
         IN [action      |-> OrElse(aiAnalysis, "action", fallbackSignal.action),
             confidence  |-> Clamped(aiAnalysis, "confidence", fallbackSignal.confidence),
             reason      |-> IF "reason" \in DOMAIN aiAnalysis /\ Truthy(aiAnalysis.reason)
                             THEN <<"AI", Raw(aiAnalysis.reason)>>
                             ELSE fallbackSignal.reason,
             probability |-> Clamped(aiAnalysis, "probability", fallbackSignal.probability),
             strength    |-> OrElse(aiAnalysis, "strength", fallbackSignal.strength),
             entry_price |-> OrElse(aiAnalysis, "entry_price", currentPrice),
             stop_loss   |-> OrElse(aiAnalysis, "stop_loss", fallbackSignal.stop_loss),
             take_profit |-> OrElse(aiAnalysis, "take_profit", fallbackSignal.take_profit)]

\* line 301: the signal generateEnhancedTradingSignals computes before it
\* decides whether to call the advisory service
BasicSignal(cs, ind, trend, momentum) ==
    IF LastCandle(cs) = Undefined THEN TypeError
    ELSE calculateCurrentTickSignal(cs, ind, LastCandle(cs).close, trend, momentum)

\* the advisory service called for every basic signal, HOLD included
CallsAdvisoryAnyAction(basicSignal) == ~Threw(basicSignal)

\* line 305: whether it calls geminiService.enhanceAnalysis
CallsAdvisory(basicSignal) ==
    ~Threw(basicSignal) /\ basicSignal.action \in {"BUY", "SELL"}

\* the enhanced signal returned next to the basic one instead of alone
EnhancedSignalsBoth(basicSignal, currentPrice, aiResponse) ==
    IF Threw(basicSignal) THEN basicSignal
    ELSE IF CallsAdvisory(basicSignal)
    THEN <<basicSignal,
           IF aiResponse.kind = "error" THEN basicSignal
           ELSE parseAIResponse(aiResponse, basicSignal, currentPrice)>>
    ELSE <<basicSignal>>

\* lines 305-314: the value the promise settles with, once the generative
\* model has answered (currentPrice is the close enhanceAnalysis passes on)
EnhancedSignals(basicSignal, currentPrice, aiResponse) ==
    IF Threw(basicSignal) THEN basicSignal
    ELSE IF CallsAdvisory(basicSignal)
    THEN <<IF aiResponse.kind = "error" THEN basicSignal
           ELSE parseAIResponse(aiResponse, basicSignal, currentPrice)>>
    ELSE <<basicSignal>>


(***************************************************************************)
(* The alert service (src/src/services/telegramService.ts)                 *)
(***************************************************************************)

\* lines 11-18 of sendTradingAlert: whether the sendMessage request is issued
\* (a comparison with NaN is false)
SendsRequest(config, signal) ==
    /\ config.enabled /\ config.botToken # "" /\ config.chatId # ""
    /\ ~ \/ (signal.strength # "STRONG" /\ signal.strength # "VERY_STRONG")
         \/ (~isNaN(signal.probability) /\ signal.probability < 75)

(***************************************************************************)
(* The App component (src/src/App.tsx): state and effects                  *)
(***************************************************************************)

\* Date.now() after a number of waits of 3 seconds
Clock(waits) == 100000 + waits * 3000

\* telegramConfig read from an empty localStorage
NoTelegram == [enabled |-> FALSE, botToken |-> "", chatId |-> ""]

\* which object enhancedAnalysis holds
Memo(refreshes) == [memo |-> refreshes]
Fresh(refreshes) == [fresh |-> TRUE, memo |-> refreshes]

\* useBinanceData right after mounting (lines 5-9), before its effect runs
PollIdle ==
    /\ loading = TRUE
    /\ error = Null
    /\ isConnected = FALSE
    /\ fetchIssued = 0
    /\ fetchInFlight = {}
    /\ fetchSucceeded = {}
    /\ candlesFrom = 0

\* the App component right after mounting without Telegram settings: no
\* candles yet, both effects have run and returned at their first guard
AppIdle ==
    /\ now = Clock(0)
    /\ enhancedAnalysis = Null
    /\ enhancedOf = Null
    /\ lastAiCall = 0
    /\ lastSignalSent = 0
    /\ telegramConfig = NoTelegram
    /\ changed = {}
    /\ aiInFlight = {}
    /\ sendInFlight = 0
    /\ aiCalls = <<>>
    /\ alerts = <<>>
    /\ lastAi = NotCalled

\* the cooldown test of the advisory call with the bound included
AiCooldownElapsedInclusive(timeSinceLastAI) == timeSinceLastAI >= 6000

\* line 49: timeSinceLastAI > 6000
AiCooldownElapsed(timeSinceLastAI) == timeSinceLastAI > 6000

\* line 144: timeSinceLastSignal > 6000
AlertCooldownElapsed(timeSinceLastSignal) == timeSinceLastSignal > 6000

\* lines 41-55: what the AI-enhancement effect does on the rendered state
EnhancementStep ==
    IF analysis = Null \/ Len(candles) = 0 THEN "return"
    ELSE LET isActionableSignal ==
                 /\ Len(analysis.signals) >= 1
                 /\ analysis.signals[1].action \in {"BUY", "SELL"}
             shouldCallAI == isActionableSignal /\ AiCooldownElapsed(now - lastAiCall)
         IN IF shouldCallAI THEN "call" ELSE "skip"

\* lines 141-143: the strength and probability test of the auto-send effect
\* on a signal with a numeric probability
NotificationGate(signal) ==
    signal.strength \in {"STRONG", "VERY_STRONG"} /\ signal.probability >= 75

\* lines 135-146: whether the auto-send effect calls sendTradingAlert on the
\* rendered state (a comparison with NaN is false)
ShouldSend ==
    /\ enhancedAnalysis # Null
    /\ telegramConfig.enabled
    /\ Len(enhancedAnalysis.signals) >= 1
    /\ enhancedAnalysis.signals[1].strength \in {"STRONG", "VERY_STRONG"}
    /\ ~isNaN(enhancedAnalysis.signals[1].probability)
    /\ enhancedAnalysis.signals[1].probability >= 75
    /\ AlertCooldownElapsed(now - lastSignalSent)
    /\ Len(candles) > 0

(***************************************************************************)
(* The candle feed and the calls of the analyzer                           *)
(***************************************************************************)

MaxBase == 51        \* longest initial history
MaxTail == 1         \* candles the feed adds to it

\* the price 1.09000 plus a number of exchange ticks of 0.0001
Price(ticks) == 10900000 + ticks * 1000

BasePrice == Price(0)
Tick == Price(1) - Price(0)

\* the volume of a candle: ordinary, or a spike of three times as much
Volume(spike) == IF spike THEN 300 ELSE 100

BaseVolume == Volume(FALSE)

Kinds == {"flat", "up", "down", "zigzag"}

\* close of the i-th candle (1-based) of an initial history of a kind
BaseClose(kind, i) ==
    CASE kind = "flat"   -> BasePrice
      [] kind = "up"     -> BasePrice + i * Tick
      [] kind = "down"   -> BasePrice - i * Tick
      [] kind = "zigzag" -> BasePrice + (i % 2) * Tick

\* a candle that opens at the previous close
Candle(open, close, volume) ==
    [open |-> open, high |-> Max(open, close), low |-> Min(open, close),
     close |-> close, volume |-> volume]

BaseHistory(kind, n) ==
    [i \in 1..n |-> Candle(BaseClose(kind, i - 1), BaseClose(kind, i), BaseVolume)]

Moves == {-2, 0, 3}                         \* ticks
Volumes == {Volume(FALSE), Volume(TRUE)}

TypeOK ==
    /\ appended \in 0..(MaxTail + 1)
    /\ Len(candles) <= MaxBase + MaxTail + 1

Init ==
    /\ \E kind \in Kinds, n \in 0..MaxBase : candles = BaseHistory(kind, n)
    /\ appended = 0
    /\ analysis = NotCalled
    /\ indicators = NotCalled
    /\ tickIn = NotCalled
    /\ tickOut = NotCalled
    /\ libIn = NotCalled
    /\ libOut = NotCalled
    /\ AppIdle
    /\ PollIdle

\* the feed delivers one more candle
NewCandle(move, volume) ==
    /\ appended < MaxTail
    /\ LET prev == IF Len(candles) = 0 THEN BasePrice ELSE candles[Len(candles)].close
       IN candles' = Append(candles, Candle(prev, prev + move * Tick, volume))
    /\ appended' = appended + 1
    /\ analysis' = NotCalled
    /\ indicators' = NotCalled
    /\ libOut' = NotCalled
    /\ UNCHANGED <<tickIn, tickOut, libIn>>
    /\ UNCHANGED appVars
    /\ UNCHANGED pollVars

CallAnalyzeMarket ==
    /\ analysis = NotCalled
    /\ analysis' = analyzeMarket(candles)
    /\ UNCHANGED <<candles, appended, indicators, tickIn, tickOut, libIn, libOut>>
    /\ UNCHANGED appVars
    /\ UNCHANGED pollVars

CallGetTechnicalIndicators ==
    /\ indicators = NotCalled
    /\ indicators' = getTechnicalIndicators(candles)
    /\ UNCHANGED <<candles, appended, analysis, tickIn, tickOut, libIn, libOut>>
    /\ UNCHANGED appVars
    /\ UNCHANGED pollVars

\* calculateVolatility called on the history by itself
CallCalculateVolatility ==
    /\ libOut = NotCalled
    /\ libOut' = [fn |-> "calculateVolatility", value |-> calculateVolatility(candles)]
    /\ UNCHANGED <<candles, appended, analysis, indicators, tickIn, tickOut, libIn>>
    /\ UNCHANGED appVars
    /\ UNCHANGED pollVars

Next ==
    \/ \E move \in Moves, volume \in Volumes : NewCandle(move, volume)
    \/ CallAnalyzeMarket
    \/ CallGetTechnicalIndicators
    \/ CallCalculateVolatility

Spec == Init /\ [][Next]_vars

(***************************************************************************)
(* Calls of calculateCurrentTickSignal on indicator snapshots              *)
(***************************************************************************)

\* RSI values (units of 0.01) on both sides of every threshold of the scorer
\* and of calculateHistoricalAccuracy, closed under reflection around 50
TickRsis == {2500, 3500, 4000, 4500, 5000, 5500, 6000, 6500, 7500}

\* MACD histograms on both sides of macdThreshold and of the 0.0001 of
\* calculateHistoricalAccuracy, closed under negation
TickHistograms == {-2000, -100, -50, 0, 50, 100, 2000}

\* ATR values of a snapshot: unusable (NaN, 0), below the 5-decimal grid
\* (1e-6, 3.3e-6, 3.4e-6), and ordinary (0.0001, 0.002)
TickAtrs == {NaN, 0, 10, 33, 34, 1000, 20000}

\* a moving average below, at and above a level
Around(level) == {level - Tick, level, level + Tick}

\* the snapshot getTechnicalIndicators builds from these indicator values
\* (lines 174-188), for a last price change of zero
Snapshot(price, rsi, histogram, sma20, sma50, ema12, atr, volume, avgVolume) ==
    [sma20 |-> sma20, sma50 |-> sma50, ema12 |-> ema12, ema26 |-> price,
     rsi |-> rsi, macd |-> histogram, macdSignal |-> 0, macdHistogram |-> histogram,
     atr |-> atr, volume |-> volume, avgVolume |-> avgVolume,
     trend |-> ClassifyTrend(ema12, price, sma20, sma50, price),
     momentum |-> ClassifyMomentum(histogram, 0)]

\* the arguments of one call, as analyzeMarket passes them (line 253)
TickCall(ind, price) ==
    [candles |-> <<Candle(price, price, ind.volume)>>, indicators |-> ind,
     currentPrice |-> price, trend |-> ind.trend, momentum |-> ind.momentum]

InitTick ==
    /\ \E rsi \in TickRsis, histogram \in TickHistograms,
          sma20 \in Around(BasePrice), ema12 \in Around(BasePrice),
          sma50 \in {0, BasePrice - Tick, BasePrice + Tick},
          atr \in TickAtrs, volume \in Volumes, avgVolume \in {0, BaseVolume} :
          tickIn = TickCall(Snapshot(BasePrice, rsi, histogram, sma20, sma50,
                                     ema12, atr, volume, avgVolume), BasePrice)
    /\ tickOut = NotCalled
    /\ candles = <<>>
    /\ appended = 0
    /\ analysis = NotCalled
    /\ indicators = NotCalled
    /\ libIn = NotCalled
    /\ libOut = NotCalled
    /\ AppIdle
    /\ PollIdle

CallCalculateCurrentTickSignal ==
    /\ tickIn # NotCalled
    /\ tickOut = NotCalled
    /\ tickOut' = calculateCurrentTickSignal(tickIn.candles, tickIn.indicators,
                                             tickIn.currentPrice, tickIn.trend,
                                             tickIn.momentum)
    /\ UNCHANGED <<candles, appended, analysis, indicators, tickIn, libIn, libOut>>
    /\ UNCHANGED appVars
    /\ UNCHANGED pollVars

NextTick == CallCalculateCurrentTickSignal

SpecTick == InitTick /\ [][NextTick]_vars

(***************************************************************************)
(* Calls of the indicator library on number series                         *)
(***************************************************************************)

MaxLen == 4          \* longest series of arbitrary values
MaxPeriod == 5       \* largest averaging period
MaxLong == 27        \* longest price series around the 26 closes MACD needs

LibValues == {-2, 0, 2, 5}

\* every series of at most MaxLen values, and the closes of the initial
\* histories of the feed for the lengths just below and above 26
LibSeries ==
    UNION {[1..n -> LibValues] : n \in 0..MaxLen}
    \cup {[i \in 1..n |-> BaseClose(kind, i)] : kind \in Kinds, n \in (MaxLong - 3)..MaxLong}

\* the candles whose closes are a series, each opening at the previous close
LibCandles(data) ==
    [i \in 1..Len(data) |->
        Candle(IF i = 1 THEN data[1] ELSE data[i - 1], data[i], BaseVolume)]

InitLib ==
    /\ \E data \in LibSeries, period \in 1..MaxPeriod :
          libIn = [data |-> data, period |-> period]
    /\ libOut = NotCalled
    /\ candles = <<>>
    /\ appended = 0
    /\ analysis = NotCalled
    /\ indicators = NotCalled
    /\ tickIn = NotCalled
    /\ tickOut = NotCalled
    /\ AppIdle
    /\ PollIdle

\* the call fn(args) of the library returns value
Returns(fn, value) ==
    /\ libIn # NotCalled
    /\ libOut = NotCalled
    /\ libOut' = [fn |-> fn, value |-> value]
    /\ UNCHANGED <<candles, appended, analysis, indicators, tickIn, tickOut, libIn>>
    /\ UNCHANGED appVars
    /\ UNCHANGED pollVars

CallCalculateSMA == Returns("calculateSMA", calculateSMA(libIn.data, libIn.period))

CallCalculateEMA == Returns("calculateEMA", calculateEMA(libIn.data, libIn.period))

CallCalculateRSI == Returns("calculateRSI", calculateRSI(libIn.data, libIn.period))

CallCalculateMACD == Returns("calculateMACD", calculateMACD(libIn.data))

CallCalculateATR ==
    Returns("calculateATR", calculateATR(LibCandles(libIn.data), libIn.period))

NextLib ==
    \/ CallCalculateSMA
    \/ CallCalculateEMA
    \/ CallCalculateRSI
    \/ CallCalculateMACD
    \/ CallCalculateATR

SpecLib == InitLib /\ [][NextLib]_vars

(***************************************************************************)
(* The App component driven by the feed, the clock, the advisory service   *)
(* and the Telegram API.  A state change re-renders the component; the     *)
(* effects whose dependencies changed then run on the rendered state,      *)
(* before any other event is handled.                                      *)
(***************************************************************************)

MaxRefetch == 2      \* refreshes of the candle list
MaxWaits == 3        \* waits of 3 seconds

\* a history that drops by one tick 15 candles before its end
StepHistory(n) ==
    [i \in 1..n |->
        Candle(IF i - 1 <= n - 15 THEN BasePrice ELSE BasePrice - Tick,
               IF i <= n - 15 THEN BasePrice ELSE BasePrice - Tick,
               BaseVolume)]

\* the candle lists a refresh can deliver
AppHistories ==
    {BaseHistory("flat", 20), BaseHistory("up", MaxBase),
     BaseHistory("zigzag", MaxBase), StepHistory(MaxBase)}

\* getTechnicalIndicators on each of them, as the indicators memo of lines
\* 88-91 holds it
IndicatorsOf == [history \in AppHistories |-> getTechnicalIndicators(history)]

\* analyzeMarket on each of them, as the analysis memo of lines 24-27 holds
\* it; line 213 computes the same snapshot from the same candles
AnalysisOf ==
    [history \in AppHistories |-> analyzeMarketWith(history, IndicatorsOf[history])]

\* the answers of the generative model
AiResponses ==
    {[kind |-> "error"],
     [kind |-> "garbage"],
     [kind |-> "json",
      body |-> [action |-> Str("BUY"), confidence |-> Num(85), probability |-> Num(80),
                strength |-> Str("STRONG"), reason |-> Str("momentum"),
                entry_price |-> Num(Price(0)), stop_loss |-> Num(Price(-5)),
                take_profit |-> Num(Price(8))]],
     [kind |-> "json",
      body |-> [action |-> Str("HOLD"), confidence |-> Str("high"),
                probability |-> Num(150)]]}

\* the Telegram settings the component can find in localStorage
TelegramConfigs ==
    {NoTelegram,
     [enabled |-> TRUE, botToken |-> "", chatId |-> ""],
     [enabled |-> TRUE, botToken |-> "token", chatId |-> "chat"]}

InitApp ==
    /\ candles = <<>>
    /\ appended = 0
    /\ analysis = Null
    /\ indicators = Null
    /\ tickIn = NotCalled
    /\ tickOut = NotCalled
    /\ libIn = NotCalled
    /\ libOut = NotCalled
    /\ now = Clock(0)
    /\ enhancedAnalysis = Null
    /\ enhancedOf = Null
    /\ lastAiCall = 0
    /\ lastSignalSent = 0
    /\ telegramConfig \in TelegramConfigs
    /\ changed = {}
    /\ aiInFlight = {}
    /\ sendInFlight = 0
    /\ aiCalls = <<>>
    /\ alerts = <<>>
    /\ lastAi = NotCalled
    /\ PollIdle

\* a log of the latest two events
Logged(log, event) ==
    IF Len(log) < 2 THEN Append(log, event) ELSE <<log[2], event>>

\* time passes
Wait ==
    /\ changed = {}
    /\ now < Clock(MaxWaits)
    /\ now' = now + (Clock(1) - Clock(0))
    /\ UNCHANGED <<candles, appended, analysis, indicators, tickIn, tickOut, libIn, libOut,
                   enhancedAnalysis, enhancedOf, lastAiCall, lastSignalSent,
                   telegramConfig, changed, aiInFlight, sendInFlight, aiCalls, alerts,
                   lastAi>>
    /\ UNCHANGED pollVars

\* useBinanceData replaces the candle list; the analysis and indicators memos
\* are recomputed
Refetch(history) ==
    /\ changed = {}
    /\ appended < MaxRefetch
    /\ candles' = history
    /\ appended' = appended + 1
    /\ analysis' = IF Len(history) = 0 THEN Null ELSE AnalysisOf[history]
    /\ indicators' = IF Len(history) = 0 THEN Null ELSE IndicatorsOf[history]
    /\ changed' = {"candles", "analysis"}
    /\ UNCHANGED <<tickIn, tickOut, libIn, libOut, now, enhancedAnalysis,
                   enhancedOf, lastAiCall, lastSignalSent, telegramConfig, aiInFlight,
                   sendInFlight, aiCalls, alerts, lastAi>>
    /\ UNCHANGED pollVars

\* The effects run after a render: the AI-enhancement effect (lines 40-86)
\* when analysis, candles or lastAiCall changed, then the auto-send effect
\* (lines 134-155) when enhancedAnalysis, telegramConfig.enabled, candles or
\* lastSignalSent changed.  Both read the rendered state; what they set
\* shows in the next render.
RunEffects ==
    /\ changed # {}
    /\ LET aiRuns   == changed \cap {"analysis", "candles", "lastAiCall"} # {}
           sendRuns == changed \cap {"enhancedAnalysis", "enabled", "candles",
                                     "lastSignalSent"} # {}
           step     == IF aiRuns THEN EnhancementStep ELSE "return"
           \* line 63 recomputes the snapshot of the rendered candles: the
           \* value the indicators memo holds
           basic    == BasicSignal(candles, indicators, analysis.trend, analysis.momentum)
           sends    == /\ sendRuns
                       /\ ShouldSend
                       /\ SendsRequest(telegramConfig, enhancedAnalysis.signals[1])
       IN /\ enhancedAnalysis' = IF step = "skip" THEN analysis ELSE enhancedAnalysis
          /\ enhancedOf' = IF step = "skip" THEN Memo(appended) ELSE enhancedOf
          /\ lastAiCall' = IF step = "call" THEN now ELSE lastAiCall
          /\ aiInFlight' =
                IF step = "call"
                THEN aiInFlight \cup {[analysis |-> analysis, basicSignal |-> basic,
                                       currentPrice |-> LastCandle(candles).close,
                                       memo |-> appended, at |-> now]}
                ELSE aiInFlight
          /\ aiCalls' = IF step = "call" /\ CallsAdvisory(basic)
                        THEN Logged(aiCalls, now) ELSE aiCalls
          /\ lastAi' = IF step = "skip" THEN [kind |-> "skipped", core |-> analysis]
                       ELSE IF step = "call" THEN [kind |-> "called", core |-> analysis]
                       ELSE lastAi
          /\ alerts' = IF sends
                       THEN Logged(alerts, [signal |-> enhancedAnalysis.signals[1],
                                            at |-> now])
                       ELSE alerts
          /\ sendInFlight' = IF sends THEN sendInFlight + 1 ELSE sendInFlight
          /\ changed' =
                (IF step = "call" /\ now # lastAiCall THEN {"lastAiCall"} ELSE {})
                \cup (IF step = "skip" /\ enhancedOf # Memo(appended)
                      THEN {"enhancedAnalysis"} ELSE {})
    /\ UNCHANGED <<candles, appended, analysis, indicators, tickIn, tickOut, libIn, libOut,
                   now, lastSignalSent, telegramConfig>>
    /\ UNCHANGED pollVars

\* The promise of generateEnhancedTradingSignals settles (lines 64-79), the
\* generative model having answered aiResponse.  The call computed its basic
\* signal and the current price before it awaited the model.
AdvisoryReturns(call, aiResponse) ==
    /\ changed = {}
    /\ call \in aiInFlight
    /\ aiInFlight' = aiInFlight \ {call}
    /\ LET basic == call.basicSignal
           enhancedSignals == EnhancedSignals(basic, call.currentPrice, aiResponse)
       IN IF Threw(basic)        \* the promise rejects: catch of line 77
          THEN /\ enhancedAnalysis' = call.analysis
               /\ enhancedOf' = Memo(call.memo)
               /\ changed' = IF enhancedOf # Memo(call.memo)
                             THEN {"enhancedAnalysis"} ELSE {}
               /\ lastAi' = [kind |-> "threw", core |-> call.analysis]
          ELSE /\ enhancedAnalysis' = [call.analysis EXCEPT !.signals = enhancedSignals]
               /\ enhancedOf' = Fresh(call.memo)
               /\ changed' = {"enhancedAnalysis"}
               /\ lastAi' = IF CallsAdvisory(basic)
                            THEN [kind |-> aiResponse.kind, core |-> call.analysis,
                                  response |-> aiResponse]
                            ELSE [kind |-> "hold", core |-> call.analysis]
    /\ UNCHANGED <<candles, appended, analysis, indicators, tickIn, tickOut, libIn, libOut,
                   now, lastAiCall, lastSignalSent, telegramConfig, sendInFlight, aiCalls,
                   alerts>>
    /\ UNCHANGED pollVars

\* The fetch of one of the pending sendTradingAlert calls settles and the
\* .then of line 148 runs.
SendCompletes(success) ==
    /\ changed = {}
    /\ sendInFlight > 0
    /\ sendInFlight' = sendInFlight - 1
    /\ lastSignalSent' = IF success THEN now ELSE lastSignalSent
    /\ changed' = IF success /\ now # lastSignalSent THEN {"lastSignalSent"} ELSE {}
    /\ UNCHANGED <<candles, appended, analysis, indicators, tickIn, tickOut, libIn, libOut,
                   now, enhancedAnalysis, enhancedOf, lastAiCall, telegramConfig,
                   aiInFlight, aiCalls, alerts, lastAi>>
    /\ UNCHANGED pollVars

NextApp ==
    \/ Wait
    \/ \E history \in AppHistories : Refetch(history)
    \/ RunEffects
    \/ \E call \in aiInFlight, aiResponse \in AiResponses : AdvisoryReturns(call, aiResponse)
    \/ \E success \in BOOLEAN : SendCompletes(success)

SpecApp == InitApp /\ [][NextApp]_vars

(***************************************************************************)
(* The polling hook by itself: fetchData is called at mount and by every   *)
(* tick of setInterval, whether or not an earlier call is still awaiting   *)
(* its response; the responses arrive in any order.                        *)
(***************************************************************************)

MaxPolls == 4        \* calls of fetchData

\* the klines the exchange answers to the n-th call: the window has moved on
\* by one candle per call
PollCandles(n) ==
    [i \in 1..2 |-> Candle(Price(n + i - 2), Price(n + i - 1), BaseVolume)]

InitPoll ==
    /\ candles = <<>>
    /\ appended = 0
    /\ analysis = Null
    /\ indicators = Null
    /\ tickIn = NotCalled
    /\ tickOut = NotCalled
    /\ libIn = NotCalled
    /\ libOut = NotCalled
    /\ AppIdle
    /\ PollIdle

\* fetchData up to its await (lines 12-17), called by the effect at mount
\* (line 46) or by the interval (line 49)
FetchData ==
    /\ fetchIssued < MaxPolls
    /\ fetchIssued' = fetchIssued + 1
    /\ fetchInFlight' = fetchInFlight \cup {fetchIssued + 1}
    /\ error' = Null
    /\ isConnected' = FALSE
    /\ UNCHANGED <<candles, loading, fetchSucceeded, candlesFrom>>
    /\ UNCHANGED <<appended, analysis, indicators, tickIn, tickOut, libIn, libOut>>
    /\ UNCHANGED appVars

\* the response of a call arrives with status ok and parses (lines 19-37)
FetchResolves(request) ==
    /\ request \in fetchInFlight
    /\ fetchInFlight' = fetchInFlight \ {request}
    /\ candles' = PollCandles(request)
    /\ candlesFrom' = request
    /\ fetchSucceeded' = fetchSucceeded \cup {request}
    /\ loading' = FALSE
    /\ isConnected' = TRUE
    /\ UNCHANGED <<error, fetchIssued>>
    /\ UNCHANGED <<appended, analysis, indicators, tickIn, tickOut, libIn, libOut>>
    /\ UNCHANGED appVars

\* the fetch of a call rejects, or answers with an error status (lines 38-42)
FetchRejects(request) ==
    /\ request \in fetchInFlight
    /\ fetchInFlight' = fetchInFlight \ {request}
    /\ error' = [message |-> "Failed to fetch data"]
    /\ loading' = FALSE
    /\ isConnected' = FALSE
    /\ UNCHANGED <<candles, fetchIssued, fetchSucceeded, candlesFrom>>
    /\ UNCHANGED <<appended, analysis, indicators, tickIn, tickOut, libIn, libOut>>
    /\ UNCHANGED appVars

NextPoll ==
    \/ FetchData
    \/ \E request \in fetchInFlight : FetchResolves(request)
    \/ \E request \in fetchInFlight : FetchRejects(request)

SpecPoll == InitPoll /\ [][NextPoll]_vars

(***************************************************************************)
(* Properties                                                              *)
(***************************************************************************)

\* the latest close of the history
LatestClose == candles[Len(candles)].close

\* all three prices of a signal are one price
PinnedTo(signal, price) ==
    signal.entry_price = price /\ signal.stop_loss = price /\ signal.take_profit = price

\* C1: for every history of fewer than 50 candles analyzeMarket returns one
\* signal with action HOLD and confidence 25, and when the history is not
\* empty its entry_price, stop_loss and take_profit all equal the latest close.
C1_InsufficientDataHolds ==
    (analysis # NotCalled /\ Len(candles) < 50) =>
        /\ ~Threw(analysis)
        /\ Len(analysis.signals) = 1
        /\ analysis.signals[1].action = "HOLD"
        /\ analysis.signals[1].confidence = 25
        /\ Len(candles) > 0 => PinnedTo(analysis.signals[1], LatestClose)

\* a history of 49 candles, the last one a move of the feed, has been analysed
C1_Witness ==
    /\ analysis # NotCalled
    /\ Len(candles) = 49
    /\ appended > 0
    /\ candles[49].close # candles[48].close
    /\ analysis.signals[1].action = "HOLD"
    /\ PinnedTo(analysis.signals[1], candles[49].close)

\* C2: every signal of calculateCurrentTickSignal, whatever the ATR of the
\* snapshot (0, NaN, arbitrarily small), has after the 5-decimal rounding
\* stop_loss < entry_price < take_profit when it is a BUY,
\* take_profit < entry_price < stop_loss when it is a SELL, and three equal
\* prices when it is a HOLD.
C2_StopsOrderedAfterRounding ==
    tickOut # NotCalled =>
        /\ tickOut.action = "BUY" =>
              tickOut.stop_loss < tickOut.entry_price
              /\ tickOut.entry_price < tickOut.take_profit
        /\ tickOut.action = "SELL" =>
              tickOut.take_profit < tickOut.entry_price
              /\ tickOut.entry_price < tickOut.stop_loss
        /\ tickOut.action = "HOLD" => PinnedTo(tickOut, tickOut.entry_price)

\* a BUY or SELL on a snapshot with a small positive ATR whose stop_loss is
\* its entry_price
C2_Witness ==
    /\ tickOut # NotCalled
    /\ tickOut.action \in {"BUY", "SELL"}
    /\ tickIn.indicators.atr > 0
    /\ tickOut.stop_loss = tickOut.entry_price

MirrorTrend(trend) ==
    IF trend = "BULLISH" THEN "BEARISH"
    ELSE IF trend = "BEARISH" THEN "BULLISH" ELSE trend

MirrorMomentum(momentum) ==
    CASE momentum = "STRONG_UP"   -> "STRONG_DOWN"
      [] momentum = "UP"          -> "DOWN"
      [] momentum = "DOWN"        -> "UP"
      [] momentum = "STRONG_DOWN" -> "STRONG_UP"
      [] OTHER                    -> momentum

\* the call with every bullish-leaning input negated: the moving averages
\* reflected through the price, EMA12 and EMA26 exchanged, RSI reflected around
\* 50, MACD and its signal exchanged, the trend reversed, the same volume
MirrorCall(call) ==
    LET ind == call.indicators
        p   == call.currentPrice
        mirrored == [ind EXCEPT !.sma20 = 2 * p - @,
                                !.sma50 = IF @ = 0 THEN 0 ELSE 2 * p - @,
                                !.ema12 = ind.ema26,
                                !.ema26 = ind.ema12,
                                !.rsi = 10000 - @,
                                !.macd = ind.macdSignal,
                                !.macdSignal = ind.macd,
                                !.macdHistogram = -@,
                                !.trend = MirrorTrend(@),
                                !.momentum = MirrorMomentum(@)]
    IN [call EXCEPT !.indicators = mirrored,
                    !.trend = MirrorTrend(@),
                    !.momentum = MirrorMomentum(@)]

\* the signal calculateCurrentTickSignal returns for the mirrored call
MirroredSignal ==
    LET m == MirrorCall(tickIn)
    IN calculateCurrentTickSignal(m.candles, m.indicators, m.currentPrice,
                                  m.trend, m.momentum)

\* the price is strictly on one side of SMA20 and EMA12 of EMA26
StrictlySided(call) ==
    /\ call.currentPrice # call.indicators.sma20
    /\ call.indicators.ema12 # call.indicators.ema26

\* C3: score symmetry: when a snapshot gives BUY with strength S, the mirrored
\* snapshot gives SELL with the same strength S, and the other way round.
C3_ScoreSymmetry ==
    (tickOut # NotCalled /\ StrictlySided(tickIn)) =>
        /\ tickOut.action = "BUY" =>
              MirroredSignal.action = "SELL" /\ MirroredSignal.strength = tickOut.strength
        /\ tickOut.action = "SELL" =>
              MirroredSignal.action = "BUY" /\ MirroredSignal.strength = tickOut.strength

\* a SELL whose mirror image does not reach the BUY threshold
C3_Witness ==
    /\ tickOut # NotCalled
    /\ StrictlySided(tickIn)
    /\ tickOut.action = "SELL"
    /\ MirroredSignal.action = "HOLD"

\* the final score of the call in tickIn
TickScore ==
    ScoreRules(tickIn.candles, tickIn.indicators, tickIn.currentPrice, tickIn.trend).score

\* C4: whenever the final score meets neither the BUY threshold nor the SELL
\* threshold, the signal is HOLD, WEAK, with confidence 25 and probability 50,
\* whatever the RSI and the MACD histogram of the snapshot.
C4_DeadZoneIsNeutralHold ==
    (tickOut # NotCalled /\ TickScore < 5 /\ TickScore > -4) =>
        /\ tickOut.action = "HOLD"
        /\ tickOut.strength = "WEAK"
        /\ tickOut.confidence = 25
        /\ tickOut.probability = 50

\* a dead-zone HOLD on a snapshot with RSI 50 and a zero histogram whose
\* probability is not 50
C4_Witness ==
    /\ tickOut # NotCalled
    /\ TickScore < 5 /\ TickScore > -4
    /\ tickIn.indicators.rsi = 5000
    /\ tickIn.indicators.macdHistogram = 0
    /\ tickOut.action = "HOLD"
    /\ tickOut.probability = 38

\* the price is above SMA20, EMA12 above EMA26 and the trend BULLISH
BullishAverages(call) ==
    /\ call.currentPrice > call.indicators.sma20
    /\ call.indicators.ema12 > call.indicators.ema26
    /\ call.trend = "BULLISH"

\* C5: with price > SMA20, EMA12 > EMA26 and a BULLISH trend
\* calculateCurrentTickSignal never returns SELL, whatever the RSI, the MACD
\* state and the volume.
C5_BullishAveragesNeverSell ==
    (tickOut # NotCalled /\ BullishAverages(tickIn)) => tickOut.action # "SELL"

\* bullish averages against an overbought RSI, a bearish MACD crossover and a
\* volume spike
C5_Witness ==
    /\ tickOut # NotCalled
    /\ BullishAverages(tickIn)
    /\ tickIn.indicators.rsi > 6500
    /\ tickIn.indicators.macdHistogram < -macdThreshold
    /\ tickIn.candles[1].volume > 2 * tickIn.indicators.avgVolume
    /\ tickIn.indicators.avgVolume > 0
    /\ tickOut.action = "HOLD"

\* every close of the history is the same price
ConstantCloses ==
    \A i \in 1..Len(candles) : candles[i].close = candles[1].close

\* C6: for every history of at least 50 candles whose closes are all equal,
\* analyzeMarket returns action HOLD.
C6_ConstantClosesHold ==
    (analysis # NotCalled /\ Len(candles) >= 50 /\ ConstantCloses) =>
        /\ ~Threw(analysis)
        /\ analysis.signals[1].action = "HOLD"

\* a history of 50 equal closes and ordinary volume analysed as a SELL
C6_Witness ==
    /\ analysis # NotCalled
    /\ Len(candles) >= 50
    /\ ConstantCloses
    /\ \A i \in 1..Len(candles) : candles[i].volume = BaseVolume
    /\ analysis.signals[1].action = "SELL"

\* the fields of a MarketAnalysis, a TradingSignal (timestamp apart) and a
\* TechnicalIndicators snapshot
AnalysisFields == {"trend", "momentum", "volatility", "signals"}
SignalFields ==
    {"action", "confidence", "reason", "probability", "strength",
     "entry_price", "stop_loss", "take_profit"}
IndicatorFields == DOMAIN NeutralIndicators

\* C7: for every non-empty history, of any length, analyzeMarket and
\* getTechnicalIndicators raise no exception and return a complete
\* MarketAnalysis and a complete snapshot.
C7_NoExceptionOnNonEmptyHistory ==
    /\ (analysis # NotCalled /\ Len(candles) > 0) =>
          /\ ~Threw(analysis)
          /\ DOMAIN analysis = AnalysisFields
          /\ Len(analysis.signals) = 1
          /\ DOMAIN analysis.signals[1] = SignalFields
    /\ (indicators # NotCalled /\ Len(candles) > 0) =>
          /\ ~Threw(indicators)
          /\ DOMAIN indicators = IndicatorFields

\* both functions have returned on a history of a single candle
C7_Witness ==
    /\ Len(candles) = 1
    /\ analysis # NotCalled /\ ~Threw(analysis)
    /\ indicators # NotCalled /\ ~Threw(indicators)

\* C9: calculateRSI returns a value in [0, 100] for every non-empty series and
\* every period, and exactly 50 when the series has fewer than period + 1
\* values.
C9_RsiRangeAndNeutral ==
    (libOut # NotCalled /\ libOut.fn = "calculateRSI" /\ Len(libIn.data) > 0) =>
        /\ libOut.value \in 0..10000
        /\ Len(libIn.data) < libIn.period + 1 => libOut.value = 5000

\* RSI 50 for a series of exactly `period` values that rises
C9_Witness ==
    /\ libOut # NotCalled
    /\ libOut.fn = "calculateRSI"
    /\ libIn.period >= 2
    /\ Len(libIn.data) = libIn.period
    /\ libIn.data[2] > libIn.data[1]
    /\ libOut.value = 5000

\* the number of true ranges a series of candles has
TrueRangeCount(data) == IF Len(data) = 0 THEN 0 ELSE Len(data) - 1

\* C10: calculateSMA and calculateEMA return 0 for a series shorter than the
\* period, calculateMACD returns {macd: 0, signal: 0, histogram: 0} for fewer
\* than 26 closes, and calculateATR returns 0 when the candles form fewer than
\* `period` true ranges.
C10_InsufficientHistorySentinels ==
    libOut # NotCalled =>
        /\ (libOut.fn \in {"calculateSMA", "calculateEMA"}
              /\ Len(libIn.data) < libIn.period) => libOut.value = 0
        /\ (libOut.fn = "calculateMACD" /\ Len(libIn.data) < 26) =>
              libOut.value = [macd |-> 0, signal |-> 0, histogram |-> 0]
        /\ (libOut.fn = "calculateATR"
              /\ TrueRangeCount(libIn.data) < libIn.period) => libOut.value = 0

\* ATR 0 for exactly `period` candles, one true range short, that do move
C10_Witness ==
    /\ libOut # NotCalled
    /\ libOut.fn = "calculateATR"
    /\ libIn.period >= 2
    /\ Len(libIn.data) = libIn.period
    /\ libIn.data[2] # libIn.data[1]
    /\ libOut.value = 0

\* C11: for every series whose length equals the period, calculateEMA returns
\* what calculateSMA returns for the same series and period.
C11_EmaSeedIsSma ==
    (libOut # NotCalled /\ libOut.fn = "calculateEMA"
        /\ Len(libIn.data) = libIn.period) =>
        libOut.value = calculateSMA(libIn.data, libIn.period)

\* the EMA of a series of exactly `period` values that are not all equal, with
\* a non-zero average
C11_Witness ==
    /\ libOut # NotCalled
    /\ libOut.fn = "calculateEMA"
    /\ libIn.period >= 2
    /\ Len(libIn.data) = libIn.period
    /\ libIn.data[libIn.period] # libIn.data[1]
    /\ libOut.value # 0
    /\ libOut.value = calculateSMA(libIn.data, libIn.period)

\* C12: calculateVolatility returns exactly 0 for every history whose closes
\* are all equal and for every history of fewer than 2 candles, and
\* analyzeMarket classifies a history of 50 or more equal closes as LOW.
C12_ConstantClosesZeroVolatility ==
    /\ (libOut # NotCalled /\ libOut.fn = "calculateVolatility"
          /\ (Len(candles) < 2 \/ ConstantCloses)) => libOut.value = 0
    /\ (analysis # NotCalled /\ Len(candles) >= 50 /\ ConstantCloses) =>
          /\ ~Threw(analysis)
          /\ analysis.volatility = "LOW"

\* a history of 50 or more equal closes with volatility 0, analysed as LOW
C12_Witness ==
    /\ Len(candles) >= 50
    /\ ConstantCloses
    /\ libOut # NotCalled /\ libOut.fn = "calculateVolatility" /\ libOut.value = 0
    /\ analysis # NotCalled /\ analysis.volatility = "LOW"

\* C13: for every history, of any length, the trend and momentum of the
\* MarketAnalysis returned by analyzeMarket equal the trend and momentum of
\* the snapshot returned by getTechnicalIndicators on the same candles.
C13_TrendMomentumFromSnapshot ==
    (analysis # NotCalled /\ indicators # NotCalled
        /\ ~Threw(analysis) /\ ~Threw(indicators)) =>
        /\ analysis.trend = indicators.trend
        /\ analysis.momentum = indicators.momentum

\* the same statement on the histories that pass the length guard of line 194
C13_FromSnapshotPastGuard ==
    (analysis # NotCalled /\ indicators # NotCalled
        /\ ~Threw(analysis) /\ ~Threw(indicators) /\ ~TooFewCandles(candles)) =>
        /\ analysis.trend = indicators.trend
        /\ analysis.momentum = indicators.momentum

\* a history below the guard, analysed and summarised, non-empty
C13_Witness ==
    /\ Len(candles) >= 1
    /\ TooFewCandles(candles)
    /\ analysis # NotCalled /\ ~Threw(analysis)
    /\ indicators # NotCalled /\ ~Threw(indicators)
    /\ analysis.trend = "SIDEWAYS"
    /\ indicators.trend = "UNDEFINED"

\* C14: every MarketAnalysis returned by analyzeMarket, on each of its paths,
\* and every result of generateEnhancedTradingSignals contains exactly one
\* TradingSignal in signals.
C14_ExactlyOneSignal ==
    /\ analysis # Null => Len(analysis.signals) = 1
    /\ enhancedAnalysis # Null => Len(enhancedAnalysis.signals) = 1

\* the advisory answered with a JSON object and its one signal is shown while
\* the analysis memo holds the one signal of the insufficient-data path
C14_Witness ==
    /\ lastAi # NotCalled /\ lastAi.kind = "json"
    /\ Len(enhancedAnalysis.signals) = 1
    /\ enhancedAnalysis.signals[1] # lastAi.core.signals[1]
    /\ analysis # Null /\ TooFewCandles(candles)
    /\ Len(analysis.signals) = 1

\* C15: a Telegram alert is dispatched only for a signal whose action is BUY
\* or SELL, whose strength is STRONG or VERY_STRONG and whose probability is
\* at least 75; never for a HOLD signal, the advisory override included.
C15_AlertsOnlyForStrongBuySell ==
    \A i \in 1..Len(alerts) :
        /\ alerts[i].signal.action \in {"BUY", "SELL"}
        /\ alerts[i].signal.strength \in {"STRONG", "VERY_STRONG"}
        /\ ~isNaN(alerts[i].signal.probability)
        /\ alerts[i].signal.probability >= 75

\* an alert went out for a HOLD signal that came back from the advisory
C15_Witness ==
    /\ Len(alerts) >= 1
    /\ alerts[Len(alerts)].signal.action = "HOLD"
    /\ lastAi # NotCalled /\ lastAi.kind = "json"
    /\ alerts[Len(alerts)].signal = enhancedAnalysis.signals[1]

\* C16: once an alert has been dispatched, no second alert is dispatched
\* until the cooldown window has elapsed, whatever the interleaving of candle
\* refreshes, enhancedAnalysis updates and the completion of the first send.
C16_AlertCooldown ==
    Len(alerts) = 2 => alerts[2].at - alerts[1].at > 6000

\* two alerts went out at the same instant, the first send still pending
C16_Witness ==
    /\ Len(alerts) = 2
    /\ alerts[2].at = alerts[1].at
    /\ sendInFlight = 2
    /\ lastSignalSent = 0

\* C17: if the advisory call fails (network or model error, or an answer
\* that cannot be parsed) or is skipped (HOLD or cooldown), the signal used
\* equals the core's signal in every field.
C17_FailureOrSkipKeepsCoreSignal ==
    (lastAi # NotCalled /\ lastAi.kind \in {"error", "garbage", "skipped"}) =>
        enhancedAnalysis.signals[1] = lastAi.core.signals[1]

\* the advisory answered with text that cannot be parsed
C17_Witness ==
    /\ lastAi # NotCalled /\ lastAi.kind = "garbage"
    /\ enhancedAnalysis.signals[1].confidence = lastAi.core.signals[1].confidence + 5

DecisionFields ==
    {"action", "confidence", "probability", "strength",
     "entry_price", "stop_loss", "take_profit"}

\* the value of a decision field is the one the advisory object gives
FromResponse(aiAnalysis, f, value) ==
    /\ f \in DOMAIN aiAnalysis
    /\ IF f \in {"confidence", "probability"}
       THEN value = Clamped(aiAnalysis, f, 0)
       ELSE value = Raw(aiAnalysis[f])

\* C18: the override is never a merge: the signal used is either the core's
\* signal field for field, or all its decision fields come from the advisory
\* answer, whatever subset of fields the answer contains.
C18_OverrideIsNeverAMerge ==
    (lastAi # NotCalled /\ lastAi.kind = "json") =>
        \/ enhancedAnalysis.signals[1] = lastAi.core.signals[1]
        \/ \A f \in DecisionFields :
              FromResponse(lastAi.response.body, f, enhancedAnalysis.signals[1][f])

\* the action of the advisory next to the strength and the stops of the core
C18_Witness ==
    /\ lastAi # NotCalled /\ lastAi.kind = "json"
    /\ "strength" \notin DOMAIN lastAi.response.body
    /\ enhancedAnalysis.signals[1].action = "HOLD"
    /\ lastAi.core.signals[1].action = "SELL"
    /\ enhancedAnalysis.signals[1].strength = lastAi.core.signals[1].strength
    /\ enhancedAnalysis.signals[1].stop_loss = lastAi.core.signals[1].stop_loss

InRange(signal) ==
    /\ signal.confidence \in 0..100
    /\ signal.probability \in 0..100

\* C20: every TradingSignal returned by analyzeMarket or by
\* generateEnhancedTradingSignals, core or overridden by the advisory, has
\* confidence and probability within 0..100 (integers for core signals).
C20_ConfidenceAndProbabilityInRange ==
    /\ analysis # Null => InRange(analysis.signals[1])
    /\ enhancedAnalysis # Null => InRange(enhancedAnalysis.signals[1])

\* the advisory object gave a confidence that is no number
C20_Witness ==
    /\ lastAi # NotCalled /\ lastAi.kind = "json"
    /\ isNaN(enhancedAnalysis.signals[1].confidence)

\* the scoring table, rule by rule, on the snapshot of a call
TableRsi(rsi) ==
    IF rsi < 3500 THEN 3
    ELSE IF rsi >= 3500 /\ rsi < 4500 THEN 1
    ELSE IF rsi > 6500 THEN -3
    ELSE IF rsi > 5500 /\ rsi <= 6500 THEN -1
    ELSE 0

TableMacd(ind) ==
    IF ind.macdHistogram > macdThreshold /\ ind.macd > ind.macdSignal THEN 2
    ELSE IF ind.macdHistogram > 0 /\ ind.macdHistogram <= macdThreshold THEN 1
    ELSE IF ind.macdHistogram < -macdThreshold /\ ind.macd < ind.macdSignal THEN -2
    ELSE IF ind.macdHistogram >= -macdThreshold /\ ind.macdHistogram < 0 THEN -1
    ELSE 0

\* the score before the volume rule
TableRunning(call) ==
    TableRsi(call.indicators.rsi)
    + TableMacd(call.indicators)
    + (IF call.currentPrice > call.indicators.sma20 THEN 2 ELSE -2)
    + (IF call.indicators.ema12 > call.indicators.ema26 THEN 2 ELSE -2)
    + (IF call.trend = "BULLISH" THEN 2 ELSE IF call.trend = "BEARISH" THEN -2 ELSE 0)

\* lines 391-394: the average volume the spike is measured against
TableAvgVolume(call) ==
    IF call.indicators.avgVolume > 0 THEN call.indicators.avgVolume
    ELSE IF Len(call.candles) >= 20
         THEN Quot(SumSeq([k \in 1..20 |-> LastN(call.candles, 20)[k].volume]), 20)
         ELSE 1

VolumeSpike(call) ==
    call.candles[Len(call.candles)].volume > 2 * TableAvgVolume(call)

TableScore(call) ==
    TableRunning(call) + (IF VolumeSpike(call) THEN Sign(TableRunning(call)) ELSE 0)

RsiReasons ==
    {"RSI oversold (strong buy signal)", "RSI approaching oversold",
     "RSI overbought (strong sell signal)", "RSI approaching overbought"}

MacdReasons ==
    {"MACD bullish crossover", "MACD histogram positive",
     "MACD bearish crossover", "MACD histogram negative"}

\* how many reasons of a set a signal gives
Fired(signal, reasons) ==
    Cardinality({k \in 1..Len(signal.reason) : signal.reason[k] \in reasons})

\* C21: the final score of calculateCurrentTickSignal is the sum of the rule
\* contributions of the scoring table (RSI, MACD, price against SMA20, EMA12
\* against EMA26, trend, and the volume spike amplifying the running score by
\* its sign); at most one RSI rule and at most one MACD rule fire, and the
\* volume rule never changes the sign of the score.
C21_ScoreIsSumOfTable ==
    tickOut # NotCalled =>
        /\ TickScore = TableScore(tickIn)
        /\ tickOut.action = Decision(TableScore(tickIn)).action
        /\ tickOut.strength = Decision(TableScore(tickIn)).strength
        /\ Fired(tickOut, RsiReasons) <= 1
        /\ Fired(tickOut, MacdReasons) <= 1
        /\ Sign(TickScore) = Sign(TableRunning(tickIn))

\* a volume spike on a negative running score, with an RSI rule and a MACD
\* rule fired
C21_Witness ==
    /\ tickOut # NotCalled
    /\ VolumeSpike(tickIn)
    /\ TableRunning(tickIn) = -1
    /\ TickScore = -2
    /\ Fired(tickOut, RsiReasons) = 1
    /\ Fired(tickOut, MacdReasons) = 1
    /\ Fired(tickOut, {"High volume confirmation"}) = 1

\* the all-above and all-below conditions on the values of a snapshot
AllAbove(ind, currentPrice) ==
    ind.ema12 > ind.ema26 /\ currentPrice > ind.sma20 /\ currentPrice > ind.sma50

AllBelow(ind, currentPrice) ==
    ind.ema12 < ind.ema26 /\ currentPrice < ind.sma20 /\ currentPrice < ind.sma50

\* the history is too short for one of sma20, sma50, ema12, ema26
TooShortForTrend(cs) ==
    Len(cs) < 20 \/ Len(cs) < 50 \/ Len(cs) < 12 \/ Len(cs) < 26

\* the snapshot of a non-empty history has been built
SnapshotBuilt ==
    indicators # NotCalled /\ Len(candles) > 0 /\ ~Threw(indicators)

\* C22: in the snapshot of a non-empty history, trend is BULLISH iff
\* ema12 > ema26 and currentPrice > sma20 and currentPrice > sma50, BEARISH iff
\* ema12 < ema26 and currentPrice < sma20 and currentPrice < sma50, UNDEFINED
\* iff the history is too short for a required indicator, SIDEWAYS otherwise.
C22_TrendTable ==
    SnapshotBuilt =>
        /\ indicators.trend = "BULLISH" <=> AllAbove(indicators, LatestClose)
        /\ indicators.trend = "BEARISH" <=> AllBelow(indicators, LatestClose)
        /\ indicators.trend = "UNDEFINED" <=> TooShortForTrend(candles)
        /\ indicators.trend = "SIDEWAYS" <=>
              /\ ~AllAbove(indicators, LatestClose)
              /\ ~AllBelow(indicators, LatestClose)
              /\ ~TooShortForTrend(candles)

\* C22, amended: UNDEFINED iff the history is too short for a required
\* indicator; on a history that is long enough, BULLISH iff all-above, BEARISH
\* iff all-below, SIDEWAYS otherwise.
C22_TrendTableWhenComputed ==
    SnapshotBuilt =>
        /\ indicators.trend = "UNDEFINED" <=> TooShortForTrend(candles)
        /\ indicators.trend = "BULLISH" <=>
              ~TooShortForTrend(candles) /\ AllAbove(indicators, LatestClose)
        /\ indicators.trend = "BEARISH" <=>
              ~TooShortForTrend(candles) /\ AllBelow(indicators, LatestClose)
        /\ indicators.trend = "SIDEWAYS" <=>
              /\ ~TooShortForTrend(candles)
              /\ ~AllAbove(indicators, LatestClose)
              /\ ~AllBelow(indicators, LatestClose)

\* a history too short for sma50 whose snapshot meets the all-above condition
\* against the sentinel 0, and is UNDEFINED
C22_Witness ==
    /\ SnapshotBuilt
    /\ Len(candles) >= 26 /\ Len(candles) < 50
    /\ indicators.sma50 = 0
    /\ AllAbove(indicators, LatestClose)
    /\ indicators.trend = "UNDEFINED"

\* snapshots of long enough histories with each of the three other trends
C22_WitnessBullish ==
    SnapshotBuilt /\ ~TooShortForTrend(candles) /\ indicators.trend = "BULLISH"

C22_WitnessBearish ==
    SnapshotBuilt /\ ~TooShortForTrend(candles) /\ indicators.trend = "BEARISH"

C22_WitnessSideways ==
    SnapshotBuilt /\ ~TooShortForTrend(candles) /\ indicators.trend = "SIDEWAYS"

\* (currentPrice - previous close) of the history, 0 when there is none
LatestChange ==
    IF Len(candles) < 2 THEN 0 ELSE LatestClose - candles[Len(candles) - 1].close

\* C23: momentum is STRONG_UP / STRONG_DOWN only when the MACD histogram is
\* beyond the strong threshold in that direction and the latest price change
\* has the same sign; UP / DOWN only when the histogram is beyond the weak
\* threshold (0.00001) in that direction; whenever |macdHistogram| is at most
\* the weak threshold, momentum is NEUTRAL.
C23_MomentumTable ==
    SnapshotBuilt =>
        /\ indicators.momentum = "STRONG_UP" =>
              indicators.macdHistogram > macdHistThresholdStrong /\ LatestChange > 0
        /\ indicators.momentum = "STRONG_DOWN" =>
              indicators.macdHistogram < -macdHistThresholdStrong /\ LatestChange < 0
        /\ indicators.momentum = "UP" => indicators.macdHistogram > macdHistThresholdWeak
        /\ indicators.momentum = "DOWN" => indicators.macdHistogram < -macdHistThresholdWeak
        /\ Abs(indicators.macdHistogram) <= macdHistThresholdWeak =>
              indicators.momentum = "NEUTRAL"

\* a histogram between 0.000001 and the weak threshold classified as UP
C23_Witness ==
    /\ SnapshotBuilt
    /\ indicators.macdHistogram >= 10
    /\ indicators.macdHistogram <= macdHistThresholdWeak
    /\ indicators.momentum = "UP"

\* the EMA of the definition: the SMA of the first `period` values, then
\* ema = x * alpha + ema * (1 - alpha), alpha = 2 / (period + 1), on each
\* later value
SeededEma(data, period) ==
    EMALoop(data, period, period + 1, Quot(SumTo(data, period), period))

\* C24: for every series at least as long as the period, with zero or
\* negative values too, calculateEMA returns the SMA-seeded recursive average;
\* the sentinel 0 is returned only because the series is shorter than the
\* period, never because of the values in it.
C24_EmaOfEverySeries ==
    (libOut # NotCalled /\ libOut.fn = "calculateEMA"
        /\ Len(libIn.data) >= libIn.period) =>
            libOut.value = SeededEma(libIn.data, libIn.period)

\* a series longer than the period whose first `period` values sum to zero:
\* the sentinel is returned where the definition gives a non-zero average
C24_Witness ==
    /\ libOut # NotCalled /\ libOut.fn = "calculateEMA"
    /\ Len(libIn.data) > libIn.period
    /\ SumTo(libIn.data, libIn.period) = 0
    /\ SeededEma(libIn.data, libIn.period) # 0
    /\ libOut.value = 0

\* the base probability of a strength tier
BaseProbability(strength) ==
    CASE strength = "MODERATE"    -> 65
      [] strength = "STRONG"      -> 80
      [] strength = "VERY_STRONG" -> 90
      [] OTHER                    -> 50

\* the historical-accuracy multiplier of a snapshot, in units of 0.01
Multiplier(ind) ==
    75 + (IF ind.rsi > 7000 \/ ind.rsi < 3000 THEN 10 ELSE 0)
       + (IF Abs(ind.macdHistogram) > 1000 THEN 5 ELSE 0)

StrengthRank(strength) ==
    CASE strength = "WEAK"        -> 0
      [] strength = "MODERATE"    -> 1
      [] strength = "STRONG"      -> 2
      [] strength = "VERY_STRONG" -> 3

\* every score the rules can add up to
Scores == -13..13

\* C25: for every BUY or SELL signal of calculateCurrentTickSignal,
\* probability = round(base x m) with base 65, 80, 90 for MODERATE, STRONG,
\* VERY_STRONG and m = 0.75, plus 0.10 when RSI is above 70 or below 30, plus
\* 0.05 when |macdHistogram| > 0.0001; m lies in [0.75, 0.95], and strength is
\* monotonically non-decreasing in |score| on each side.
C25_ProbabilityIsBaseTimesAccuracy ==
    (tickOut # NotCalled /\ tickOut.action \in {"BUY", "SELL"}) =>
        /\ tickOut.strength \in {"MODERATE", "STRONG", "VERY_STRONG"}
        /\ tickOut.probability =
              Quot(BaseProbability(tickOut.strength) * Multiplier(tickIn.indicators), 100)
        /\ Multiplier(tickIn.indicators) \in 75..95
        /\ calculateHistoricalAccuracy(tickIn.candles, tickIn.indicators)
              = Multiplier(tickIn.indicators)
        /\ tickOut.strength = Decision(TickScore).strength
        /\ \A s1, s2 \in Scores :
              (Sign(s1) = Sign(s2) /\ Abs(s1) <= Abs(s2)) =>
                  StrengthRank(Decision(s1).strength) <= StrengthRank(Decision(s2).strength)

\* a VERY_STRONG BUY with both bonuses: round(90 x 0.90) = 81
C25_Witness ==
    /\ tickOut # NotCalled
    /\ tickOut.action = "BUY"
    /\ tickOut.strength = "VERY_STRONG"
    /\ tickIn.indicators.rsi < 3000
    /\ Abs(tickIn.indicators.macdHistogram) > 1000
    /\ tickOut.probability = 81

\* a MODERATE SELL without a bonus: round(65 x 0.75) = 49
C25_WitnessModerate ==
    /\ tickOut # NotCalled
    /\ tickOut.action = "SELL"
    /\ tickOut.strength = "MODERATE"
    /\ tickOut.probability = 49

\* the advisory service has been consulted by the call lastAi reports
AdvisoryConsulted ==
    lastAi # NotCalled /\ lastAi.kind \in {"error", "garbage", "json"}

\* C26: the advisory service is invoked only when the core signal's action is
\* BUY or SELL: for a core HOLD signal generateEnhancedTradingSignals returns
\* the core signal without calling enhanceAnalysis, and the App effect never
\* starts an advisory call.
C26_AdvisoryOnlyForBuySell ==
    /\ \A call \in aiInFlight :
          /\ call.analysis.signals[1].action \in {"BUY", "SELL"}
          /\ call.basicSignal.action \in {"BUY", "SELL"}
    /\ AdvisoryConsulted => lastAi.core.signals[1].action \in {"BUY", "SELL"}
    /\ (lastAi # NotCalled /\ lastAi.kind = "called") =>
          lastAi.core.signals[1].action \in {"BUY", "SELL"}
    /\ (analysis # Null /\ analysis.signals[1].action = "HOLD") =>
          /\ ~CallsAdvisory(analysis.signals[1])
          /\ \A aiResponse \in AiResponses :
                EnhancedSignals(analysis.signals[1], LatestClose, aiResponse)
                    = <<analysis.signals[1]>>

\* the effect has run on the HOLD analysis of a history of 50 candles or more
\* with the cooldown elapsed: it skipped the advisory call and none is pending
C26_Witness ==
    /\ analysis # Null /\ analysis.signals[1].action = "HOLD"
    /\ Len(candles) >= 50
    /\ lastAi # NotCalled /\ lastAi.kind = "skipped" /\ lastAi.core = analysis
    /\ AiCooldownElapsed(now - lastAiCall)
    /\ enhancedAnalysis = analysis
    /\ aiInFlight = {}
    /\ changed = {}

\* C27: every BUY or SELL signal returned by calculateCurrentTickSignal has
\* confidence 0 (confidence is assigned only on the HOLD branch), so an
\* actionable core signal carries a lower confidence than the 25 of a HOLD.
C27_ActionableConfidenceIsZero ==
    tickOut # NotCalled =>
        /\ tickOut.action \in {"BUY", "SELL"} => tickOut.confidence = 0
        /\ tickOut.action = "HOLD" => tickOut.confidence = 25
        /\ tickOut.action \in {"BUY", "SELL", "HOLD"}

\* a VERY_STRONG SELL, the strongest signal the scorer gives, with confidence 0
C27_Witness ==
    /\ tickOut # NotCalled
    /\ tickOut.action = "SELL"
    /\ tickOut.strength = "VERY_STRONG"
    /\ tickOut.confidence = 0

\* C28: a core signal of strength STRONG never has probability >= 75 (its
\* maximum is round(80 x 0.90) = 72), so without an advisory override the
\* notification gate (STRONG or VERY_STRONG and probability >= 75) is
\* satisfied only by VERY_STRONG signals whose RSI is outside [30, 70].
C28_CoreGateNeedsVeryStrongExtremeRsi ==
    tickOut # NotCalled =>
        /\ tickOut.strength = "STRONG" => tickOut.probability <= 72
        /\ NotificationGate(tickOut) =>
              /\ tickOut.strength = "VERY_STRONG"
              /\ tickIn.indicators.rsi < 3000 \/ tickIn.indicators.rsi > 7000

\* a VERY_STRONG signal on an extreme RSI passes the gate
C28_Witness ==
    /\ tickOut # NotCalled
    /\ NotificationGate(tickOut)
    /\ tickOut.strength = "VERY_STRONG"
    /\ tickIn.indicators.rsi > 7000

\* a STRONG signal at its maximum probability, and a VERY_STRONG one on an
\* RSI within [30, 70], stay below the gate
C28_WitnessStrong ==
    /\ tickOut # NotCalled
    /\ tickOut.strength = "STRONG"
    /\ tickOut.probability = 72

C28_WitnessVeryStrongBelowGate ==
    /\ tickOut # NotCalled
    /\ tickOut.strength = "VERY_STRONG"
    /\ tickIn.indicators.rsi >= 3000 /\ tickIn.indicators.rsi <= 7000
    /\ ~NotificationGate(tickOut)

\* C29: the enhanced analysis is never stale: once the analysis of a newer
\* candle batch has been committed as enhancedAnalysis, an advisory response
\* requested for an older candle batch never replaces it, for any interleaving
\* of polls and advisory completions.
C29_EnhancedAnalysisNeverStale ==
    [][(enhancedOf # Null /\ enhancedOf' # enhancedOf) =>
          enhancedOf'.memo >= enhancedOf.memo]_vars

\* every call has settled and the effects have run, yet enhancedAnalysis is
\* the answer to a call made for an older candle list, with another trend
\* than the analysis of the candles on screen
C29_Witness ==
    /\ changed = {}
    /\ aiInFlight = {}
    /\ enhancedOf # Null /\ "fresh" \in DOMAIN enhancedOf
    /\ enhancedOf.memo < appended
    /\ enhancedAnalysis.trend # analysis.trend

\* the latest of a set of calls, 0 when there is none
Latest(requests) ==
    IF requests = {} THEN 0 ELSE CHOOSE n \in requests : \A m \in requests : m <= n

\* C30: when polling requests overlap, the candle history held in state after
\* all responses have arrived is the response to the most recently issued
\* request that succeeded: an older response never overwrites a newer one,
\* and a failed fetch leaves the previously loaded candles unchanged.
C30_LatestResponseWins ==
    fetchInFlight = {} =>
        /\ candlesFrom = Latest(fetchSucceeded)
        /\ candles = IF fetchSucceeded = {} THEN <<>>
                     ELSE PollCandles(Latest(fetchSucceeded))

\* all responses have arrived, the last one of them to a call older than the
\* latest successful one, and the candles are the older answer
C30_Witness ==
    /\ fetchInFlight = {}
    /\ fetchSucceeded = {1, 2}
    /\ candlesFrom = 1
    /\ candles = PollCandles(1)

\* a failed fetch has left the candles of the earlier call in place
C30_WitnessFailureKeepsCandles ==
    /\ fetchInFlight = {}
    /\ fetchIssued = 2
    /\ fetchSucceeded = {1}
    /\ error # Null
    /\ candles = PollCandles(1)

====
